---- MODULE Spec2Model ----
(***************************************************************************)
(* Model of the OneLeaf knowledge base (src-tauri/src/ai/knowledge_base.rs *)
(* and src-tauri/src/ai/vector_db.rs): the two SQLite tables, the          *)
(* in-memory document cache, and the facade operations executed by         *)
(* concurrent callers, one step per lock acquisition.                      *)
(*                                                                         *)
(* Text is a sequence of Unicode scalar values.  f32 arithmetic is         *)
(* modelled exactly: a similarity is kept as the reduced fraction of its   *)
(* signed square, so rounding is abstracted away.                          *)
(*                                                                         *)
(* Three commands of the desktop shell are modelled beside it, each as a   *)
(* specification of its own: the ASR model download (commands/asr.rs),     *)
(* the video transcription (commands/video.rs) and the tray (core/tray.rs).*)
(***************************************************************************)
EXTENDS Integers, Sequences, FiniteSets, TLC

\* ---------------------------------------------------------------- bounds
NumThreads == 2
MaxDocs == 2
MaxLen == 1
MaxLimit == 1
MaxFaults == 1
MaxTail == 2
MaxDim == 2
MaxRows == 2
EmbedLen == 2

\* Lines in the body of one transcription response, and distinct non-empty
\* texts a success event can carry.
MaxEvents == 3
MaxAsrText == 2

\* Chunks in the response body of one model file, video ids handed to
\* transcribe_video, and init_tray calls made in one process.
MaxChunks == 2
MaxVideos == 3
MaxCalls == 4

\* ------------------------------------------------------ program constants
Dimension == 384
SnippetChars == 300

Threads == 1..NumThreads
None == "None"
NoText == [some |-> FALSE, v |-> <<>>]
SomeText(c) == [some |-> TRUE, v |-> c]
Alphabet == {32, 97}

RECURSIVE SeqsUpTo(_, _)
SeqsUpTo(S, n) ==
    IF n = 0 THEN {<<>>}
    ELSE LET shorter == SeqsUpTo(S, n - 1)
         IN  shorter \cup {Append(s, c) : s \in {x \in shorter : Len(x) = n - 1}, c \in S}

Texts == SeqsUpTo(Alphabet, MaxLen)
Limits == 0..MaxLimit
\* The limits the concurrent callers search with; a limit of 0, which
\* returns nothing, is covered where the vector scan is taken alone.
CallerLimits == 1..MaxLimit
Exts == {"txt", "docx", "pdf", "doc"}
OptTexts == {NoText} \cup {SomeText(c) : c \in Texts}

\* ------------------------------------------------------------ arithmetic
RECURSIVE Gcd(_, _)
Gcd(a, b) == IF b = 0 THEN a ELSE Gcd(b, a % b)

RECURSIVE SumOver(_, _)
SumOver(f, S) ==
    IF S = {} THEN 0
    ELSE LET x == CHOOSE y \in S : TRUE IN f[x] + SumOver(f, S \ {x})

\* ------------------------------------------------------------- strings
\* str::len(): number of UTF-8 bytes of one scalar value.
Utf8Len(c) == IF c < 128 THEN 1 ELSE IF c < 2048 THEN 2 ELSE IF c < 65536 THEN 3 ELSE 4

\* str::len() of a string: the sum of its scalars' byte lengths, summed by
\* halves so that long strings stay shallow.
RECURSIVE ByteLen(_)
ByteLen(s) ==
    IF Len(s) = 0 THEN 0
    ELSE IF Len(s) = 1 THEN Utf8Len(s[1])
    ELSE LET h == Len(s) \div 2
         IN  ByteLen(SubSeq(s, 1, h)) + ByteLen(SubSeq(s, h + 1, Len(s)))

IsWhite(c) == c = 32

RECURSIVE TrimStart(_)
TrimStart(s) == IF s # <<>> /\ IsWhite(Head(s)) THEN TrimStart(Tail(s)) ELSE s

\* text.trim().is_empty()
trim_is_empty(s) == TrimStart(s) = <<>>

Ellipsis == <<46, 46, 46>>

\* char_indices().nth(n): the number of scalars before the n-th boundary,
\* or the whole string when it has no n-th scalar (unwrap_or(len)).
char_boundary(content, n) == IF Len(content) > n THEN n ELSE Len(content)

\* knowledge_base.rs 328-333: the test is on the byte length.
snippet(content) ==
    IF ByteLen(content) > SnippetChars
    THEN SubSeq(content, 1, char_boundary(content, SnippetChars)) \o Ellipsis
    ELSE content

\* ------------------------------------------------------------- vectors
\* A vector is [len, c, n2]: len components, the non-zero ones listed in
\* the function c, all divided by sqrt(n2).
ZeroVec(dim) == [len |-> dim, c |-> << >>, n2 |-> 1]

Dot(a, b) ==
    LET common == DOMAIN a.c \cap DOMAIN b.c
        prod == [i \in common |-> a.c[i] * b.c[i]]
    IN  SumOver(prod, common)

\* As embed_counts, but the slot is the scalar value alone, without the
\* position.
RECURSIVE embed_counts_by_scalar(_, _, _)
embed_counts_by_scalar(text, i, dim) ==
    IF i > Len(text) THEN [k \in {} |-> 0]
    ELSE LET rest == embed_counts_by_scalar(text, i + 1, dim)
             idx == text[i] % dim
         IN  [k \in DOMAIN rest \cup {idx} |->
                 (IF k \in DOMAIN rest THEN rest[k] ELSE 0) + (IF k = idx THEN 1 ELSE 0)]

\* Slot counts before normalisation (knowledge_base.rs 378-383).
RECURSIVE embed_counts(_, _, _)
embed_counts(text, i, dim) ==
    IF i > Len(text) THEN [k \in {} |-> 0]
    ELSE LET rest == embed_counts(text, i + 1, dim)
             idx == (text[i] + (i - 1)) % dim
         IN  [k \in DOMAIN rest \cup {idx} |->
                 (IF k \in DOMAIN rest THEN rest[k] ELSE 0) + (IF k = idx THEN 1 ELSE 0)]

\* SimpleEmbedder::embed: counts, then division by the norm when it is > 0.
SimpleEmbedder_embed(text, dim) ==
    LET counts == embed_counts(text, 1, dim)
        sq == [k \in DOMAIN counts |-> counts[k] * counts[k]]
        normsq == SumOver(sq, DOMAIN counts)
    IN  [len |-> dim, c |-> counts, n2 |-> IF normsq > 0 THEN normsq ELSE 1]

\* The semantic provider: a fixed function of the text, here the histogram
\* of scalar values without position, normalised.
RECURSIVE onnx_counts(_, _, _)
onnx_counts(text, i, dim) ==
    IF i > Len(text) THEN [k \in {} |-> 0]
    ELSE LET rest == onnx_counts(text, i + 1, dim)
             idx == text[i] % dim
         IN  [k \in DOMAIN rest \cup {idx} |->
                 (IF k \in DOMAIN rest THEN rest[k] ELSE 0) + (IF k = idx THEN 1 ELSE 0)]

OnnxEmbedder_embed(text, dim) ==
    LET counts == onnx_counts(text, 1, dim)
        sq == [k \in DOMAIN counts |-> counts[k] * counts[k]]
        normsq == SumOver(sq, DOMAIN counts)
    IN  [len |-> dim, c |-> counts, n2 |-> IF normsq > 0 THEN normsq ELSE 1]

\* A similarity value x is kept as the reduced fraction of x*|x|.
SimZero == [sgn |-> 0, n2 |-> 0, d2 |-> 1]

MkSim(num, densq) ==
    IF num = 0 THEN SimZero
    ELSE LET g == Gcd(num * num, densq)
         IN  [sgn |-> IF num < 0 THEN -1 ELSE 1, n2 |-> (num * num) \div g, d2 |-> densq \div g]

SimLess(s, t) == s.sgn * s.n2 * t.d2 < t.sgn * t.n2 * s.d2

\* As cosine_similarity, but vectors of unequal length are compared over
\* the components both have.
cosine_similarity_zip(a, b) ==
    LET aa == Dot(a, a)
        bb == Dot(b, b)
    IN  IF aa = 0 \/ bb = 0 THEN SimZero ELSE MkSim(Dot(a, b), aa * bb)

\* VectorDb::cosine_similarity
cosine_similarity(a, b) ==
    IF a.len # b.len THEN SimZero
    ELSE LET aa == Dot(a, a)
             bb == Dot(b, b)
         IN  IF aa = 0 \/ bb = 0 THEN SimZero
             ELSE MkSim(Dot(a, b), aa * bb)

\* -------------------------------------------------------------- storage
\* As VectorDb_insert, but a plain INSERT into a table without a key.
VectorDb_insert_plain(rows, id, emb) ==
    rows \cup {[document_id |-> id, embedding |-> emb, dimension |-> emb.len]}

\* INSERT OR REPLACE INTO document_vectors
VectorDb_insert(rows, id, emb) ==
    {r \in rows : r.document_id # id}
        \cup {[document_id |-> id, embedding |-> emb, dimension |-> emb.len]}

\* INSERT OR REPLACE INTO documents
VectorDb_save_document(rows, doc) ==
    {r \in rows : r.id # doc.id} \cup {doc}

\* As VectorDb_delete, but a DELETE that affects no row is an error.
VectorDb_delete_strict(rows, id) ==
    [ok |-> \E r \in rows : r.document_id = id,
     rows |-> {r \in rows : r.document_id # id}]

\* DELETE FROM document_vectors WHERE document_id = ?1; execute() is Ok for
\* any number of affected rows.
VectorDb_delete(rows, id) ==
    [ok |-> TRUE, rows |-> {r \in rows : r.document_id # id}]

\* As VectorDb_delete_document, but the row is left in the table.
VectorDb_delete_document_keep(rows, id) == [ok |-> TRUE, rows |-> rows]

\* DELETE FROM documents WHERE id = ?1
VectorDb_delete_document(rows, id) ==
    [ok |-> TRUE, rows |-> {r \in rows : r.id # id}]

RECURSIVE Perms(_)
Perms(S) ==
    IF S = {} THEN {<<>>}
    ELSE UNION {{<<x>> \o p : p \in Perms(S \ {x})} : x \in S}

\* As Take, but nothing is cut off.
Take_all(s, n) == s

\* take(limit)
Take(s, n) == SubSeq(s, 1, IF n < Len(s) THEN n ELSE Len(s))

\* bytes_to_f32_slice over a blob written by f32_slice_to_bytes: the first
\* `dimension` components, as far as the blob has them.
bytes_to_f32_slice(emb, dimension) ==
    IF dimension >= emb.len THEN emb
    ELSE [len |-> dimension,
          c |-> [i \in {k \in DOMAIN emb.c : k < dimension} |-> emb.c[i]],
          n2 |-> emb.n2]

Scored(rows, query_embedding) ==
    {[id |-> r.document_id,
      sim |-> cosine_similarity(query_embedding,
                                bytes_to_f32_slice(r.embedding, r.dimension))] : r \in rows}

\* As VectorDb_search, but sorted by ascending similarity.
VectorDb_search_ascending(rows, query_embedding, limit) ==
    {Take(p, limit) : p \in {q \in Perms(Scored(rows, query_embedding)) :
        \A i, j \in 1..Len(q) : i < j => ~SimLess(q[j].sim, q[i].sim)}}

\* As VectorDb_search, but rows of similarity 0 or less are left out.
VectorDb_search_threshold(rows, query_embedding, limit) ==
    {Take(p, limit) : p \in {q \in Perms({x \in Scored(rows, query_embedding) :
                                                SimLess(SimZero, x.sim)}) :
        \A i, j \in 1..Len(q) : i < j => ~SimLess(q[i].sim, q[j].sim)}}

\* VectorDb::search: every row scored, sorted by descending similarity (the
\* row order of the SELECT, hence the order among ties, is not defined),
\* then the first `limit`.
VectorDb_search(rows, query_embedding, limit) ==
    {Take(p, limit) : p \in {q \in Perms(Scored(rows, query_embedding)) :
        \A i, j \in 1..Len(q) : i < j => ~SimLess(q[i].sim, q[j].sim)}}

\* VectorDb::load_documents: every row, in an order SQL does not define.
VectorDb_load_documents(rows) == Perms(rows)

\* ---------------------------------------------------------------- cache
\* As cache_push, but the document is put in front.
cache_push_front(docs, doc) == <<doc>> \o docs
cache_push(docs, doc) == Append(docs, doc)
\* As cache_retain, but every document is retained.
cache_retain_all(docs, id) == docs
cache_retain(docs, id) == SelectSeq(docs, LAMBDA d : d.id # id)
\* As cache_clear, but nothing is removed.
cache_clear_noop(docs) == docs
cache_clear(docs) == <<>>

\* As cache_find, but the first cached document is taken whatever its id.
cache_find_first(docs, id) == IF docs = <<>> THEN <<>> ELSE <<Head(docs)>>

\* documents.iter().find(|d| d.id == doc_id)
RECURSIVE cache_find(_, _)
cache_find(docs, id) ==
    IF docs = <<>> THEN <<>>
    ELSE IF Head(docs).id = id THEN <<Head(docs)>> ELSE cache_find(Tail(docs), id)

\* knowledge_base.rs 326-341: the join of the vector hits with the cache.
RECURSIVE search_join(_, _)
search_join(similar_docs, docs) ==
    IF similar_docs = <<>> THEN <<>>
    ELSE LET hit == Head(similar_docs)
             found == cache_find(docs, hit.id)
             rest == search_join(Tail(similar_docs), docs)
         IN  IF found = <<>> THEN rest
             ELSE <<[document |-> found[1], relevance |-> hit.sim,
                     snippet |-> snippet(found[1].content)]>> \o rest

\* ------------------------------------------------------------- embedder
\* Embedder::embed: the semantic provider can fail, the fallback cannot.
EmbedOutcomes(kind) == IF kind = "Onnx" THEN BOOLEAN ELSE {FALSE}

\* As Embedder_embed, but a failed inference is replaced by the fallback
\* provider's embedding.
Embedder_embed_fallback(kind, text, fails) ==
    IF kind = "Onnx" /\ ~fails
    THEN [ok |-> TRUE, val |-> OnnxEmbedder_embed(text, Dimension)]
    ELSE [ok |-> TRUE, val |-> SimpleEmbedder_embed(text, Dimension)]

Embedder_embed(kind, text, fails) ==
    IF kind = "Onnx"
    THEN IF fails THEN [ok |-> FALSE, val |-> "OnnxEmbedderError"]
         ELSE [ok |-> TRUE, val |-> OnnxEmbedder_embed(text, Dimension)]
    ELSE [ok |-> TRUE, val |-> SimpleEmbedder_embed(text, Dimension)]

\* ------------------------------------------------------------- parsing
\* A source file: whether it exists, its extension, whether it can be read
\* and decoded, and the text it then yields.
Files == {f \in [some : {TRUE}, exists : BOOLEAN, ext : Exts, readable : BOOLEAN, text : Texts] :
             /\ ~f.exists => ~f.readable
             /\ ~f.readable => f.text = <<>>}
NoPath == [some |-> FALSE, exists |-> FALSE, ext |-> "txt", readable |-> FALSE, text |-> <<>>]

\* parse_document, dispatched on the extension.
parse_document(p) ==
    CASE p.ext = "txt" ->
            IF p.readable THEN [ok |-> TRUE, val |-> p.text]
            ELSE [ok |-> FALSE, val |-> "ParseFailed"]
      [] p.ext \in {"docx", "pdf"} ->
            IF p.readable /\ ~trim_is_empty(p.text) THEN [ok |-> TRUE, val |-> p.text]
            ELSE [ok |-> FALSE, val |-> "ParseFailed"]
      [] OTHER -> [ok |-> FALSE, val |-> "ParseFailed"]

\* As resolve_content, but a path that is given is parsed even when content
\* is supplied.
resolve_content_path_first(path, content) ==
    IF path.some
    THEN IF ~path.exists THEN [ok |-> FALSE, val |-> "DocumentNotFound"]
         ELSE parse_document(path)
    ELSE IF content.some THEN [ok |-> TRUE, val |-> content.v]
         ELSE [ok |-> FALSE, val |-> "ParseFailed"]

\* knowledge_base.rs 158-171: the content of the new document.
resolve_content(path, content) ==
    IF path.some
    THEN IF ~path.exists /\ ~content.some
         THEN [ok |-> FALSE, val |-> "DocumentNotFound"]
         ELSE IF content.some THEN [ok |-> TRUE, val |-> content.v]
              ELSE parse_document(path)
    ELSE IF content.some THEN [ok |-> TRUE, val |-> content.v]
         ELSE [ok |-> FALSE, val |-> "ParseFailed"]

\* What add_document's arguments can resolve to, over every path (absent,
\* missing, unreadable, readable with any text) and every inline content.
ResolveOutcomes ==
    {resolve_content(path, content) : path \in Files \cup {NoPath}, content \in OptTexts}

\* -------------------------------------------------------------- backup
Categories == {"documents", "video-transcript"}

\* The arguments of one add_document call, with the outcome the file system
\* gives create_dir_all, fs::copy and fs::write in the backup directory.
AddArgs ==
    {a \in [path : Files \cup {NoPath}, content : OptTexts, backup_dir : BOOLEAN,
            category : Categories,
            create_dir_ok : BOOLEAN, copy_ok : BOOLEAN, write_ok : BOOLEAN] :
        ~a.backup_dir => (a.create_dir_ok /\ a.copy_ok /\ a.write_ok)}
NoArgs == [path |-> NoPath, content |-> NoText, backup_dir |-> FALSE,
           category |-> "documents",
           create_dir_ok |-> TRUE, copy_ok |-> TRUE, write_ok |-> TRUE]

\* backup_path: none, the copy of the source file, or the transcript text.
NoBackup == [some |-> FALSE, kind |-> "none"]
SomeBackup(kind) == [some |-> TRUE, kind |-> kind]

\* As backup, but a copy or write that fails leaves the document without a
\* backup path.
backup_strict(a) ==
    IF ~a.backup_dir THEN [backup_path |-> NoBackup, files |-> {}]
    ELSE IF a.path.some /\ a.path.exists
         THEN [backup_path |-> IF a.create_dir_ok /\ a.copy_ok THEN SomeBackup("copy")
                               ELSE NoBackup,
               files |-> {}]
         ELSE [backup_path |-> IF a.create_dir_ok /\ a.write_ok THEN SomeBackup("transcript")
                               ELSE NoBackup,
               files |-> {}]

\* knowledge_base.rs 174-210: every file-system result is dropped by .ok();
\* the backup path is decided by the arguments alone.
backup(a) ==
    IF ~a.backup_dir THEN [backup_path |-> NoBackup, files |-> {}]
    ELSE IF a.path.some /\ a.path.exists
         THEN [backup_path |-> SomeBackup("copy"),
               files |-> (IF a.create_dir_ok /\ a.copy_ok THEN {"copy"} ELSE {})
                         \cup (IF a.category = "video-transcript"
                                   /\ a.create_dir_ok /\ a.write_ok
                                THEN {"stem.txt"} ELSE {})]
         ELSE [backup_path |-> SomeBackup("transcript"),
               files |-> IF a.create_dir_ok /\ a.write_ok THEN {"transcript.txt"} ELSE {}]

\* As new_doc_id, but the second id drawn repeats the first.
new_doc_id_repeating(next) == IF next > 1 THEN next - 1 ELSE next

\* Uuid::new_v4(): an id no earlier call was given.
new_doc_id(next) == next

\* As add_next, but the document row is saved before the content is embedded.
add_next_save_first(step) ==
    CASE step = "resolve" -> "add_save"
      [] step = "add_save" -> "add_embed"
      [] step = "add_embed" -> "add_insert"
      [] step = "add_insert" -> "add_push"
      [] OTHER -> "idle"

\* The statement order of add_document after the content is resolved.
add_next(step) ==
    CASE step = "resolve" -> "add_embed"
      [] step = "add_embed" -> "add_insert"
      [] step = "add_insert" -> "add_save"
      [] step = "add_save" -> "add_push"
      [] OTHER -> "idle"

\* ---------------------------------------------------------------- locks
\* VectorDb.conn (std Mutex), Embedder::Onnx (parking_lot Mutex) and
\* KnowledgeBase.documents (parking_lot RwLock).
Locks == {"conn", "embedder", "documents"}
Ops == {"add", "search", "delete", "clear", "list"}

\* One statement that takes a lock: the guard is a temporary or a local of
\* the callee, dropped when the statement ends; `fallible` when the
\* statement is followed by `?`.
Stmt(lock, mode, fallible) ==
    <<[e |-> "acq", lock |-> lock, mode |-> mode, fallible |-> fallible],
      [e |-> "rel", lock |-> lock, mode |-> mode, fallible |-> fallible]>>
ConnStmt == Stmt("conn", "x", TRUE)
\* Embedder::embed: e.lock().embed(text) for Onnx, no lock for Simple.
EmbedStmt(kind) == IF kind = "Onnx" THEN Stmt("embedder", "x", TRUE) ELSE <<>>

\* As LockProgram, but clear_all keeps the storage mutex while it clears the
\* cache, and search takes the cache's read lock before the vector scan.
LockProgram_nested(op, kind) ==
    CASE op = "add" ->
            EmbedStmt(kind) \o ConnStmt \o ConnStmt \o Stmt("documents", "w", FALSE)
      [] op = "search" ->
            EmbedStmt(kind) \o <<Stmt("documents", "r", FALSE)[1]>> \o ConnStmt
                \o <<Stmt("documents", "r", FALSE)[2]>>
      [] op = "delete" -> ConnStmt \o ConnStmt \o Stmt("documents", "w", FALSE)
      [] op = "clear" ->
            <<ConnStmt[1]>> \o Stmt("documents", "w", FALSE) \o <<ConnStmt[2]>>
      [] OTHER -> Stmt("documents", "r", FALSE)

\* The lock events of each facade operation, in statement order.
LockProgram(op, kind) ==
    CASE op = "add" ->
            EmbedStmt(kind) \o ConnStmt \o ConnStmt \o Stmt("documents", "w", FALSE)
      [] op = "search" -> EmbedStmt(kind) \o ConnStmt \o Stmt("documents", "r", FALSE)
      [] op = "delete" -> ConnStmt \o ConnStmt \o Stmt("documents", "w", FALSE)
      [] op = "clear" -> ConnStmt \o Stmt("documents", "w", FALSE)
      [] OTHER -> Stmt("documents", "r", FALSE)

\* ---------------------------------------------------------------- state
VARIABLES
    document_vectors,   \* table document_vectors
    db_documents,       \* table documents
    documents,          \* KnowledgeBase.documents, the in-memory cache
    embedder,           \* KnowledgeBase.embedder: "Onnx" or "Simple"
    th,                 \* per caller: position and locals of its call
    last,               \* the return made by the latest step, if it made one
    next_id,            \* number of ids used so far, plus one
    faults,             \* storage failures so far
    visible,            \* ids add_document has returned to a caller
    deletedOk,          \* ids for which delete_document has returned Ok
    wrote,              \* callers whose unfinished or failed call has written
    cleared,            \* clear_all returned Ok and no mutating call since
    snip_in,            \* content handed to the snippet rule
    snip_out,           \* the snippet built from it
    add_args,           \* arguments and file-system outcomes of one add_document
    backup_files,       \* files that call has created in the backup directory
    run,                \* per caller: its operation and its next lock event
    held,               \* per caller: the locks it holds
    waiters,            \* per lock: the callers that have asked for it, in order
    recent,             \* per id: the vector of its latest insert, if not deleted since
    old_documents,      \* the cache of the instance the global handle held before
    stale,              \* callers whose call runs on that earlier instance
    asr,                \* one call_asr_service call: the body, its locals, its result
    dl,                 \* the ASR model directory and one download_asr_model call
    tv,                 \* the temp directory and one transcribe_video call
    tray                \* TRAY_INITIALIZED, the tray icons, the init_tray calls

kbvars == <<document_vectors, db_documents, documents, embedder, th, last,
            next_id, faults, visible, deletedOk, wrote, cleared>>
snipvars == <<snip_in, snip_out>>
addvars == <<add_args, backup_files>>
lockvars == <<run, held, waiters>>
tablevars == <<recent>>
globalvars == <<old_documents, stale>>
asrvars == <<asr>>
shellvars == <<dl, tv, tray>>
fnvars == <<snipvars, addvars, lockvars, tablevars, globalvars, asrvars, shellvars>>
vars == <<document_vectors, db_documents, documents, embedder, th, last,
          next_id, faults, visible, deletedOk, wrote, cleared, snip_in, snip_out,
          add_args, backup_files, run, held, waiters, recent, old_documents,
          stale, asr, dl, tv, tray>>

Idle == [pc |-> "idle", id |-> 0, content |-> <<>>, backup_path |-> NoBackup,
         emb |-> ZeroVec(0), limit |-> 0, similar_docs |-> <<>>]
\* A return: the caller, the operation and its argument (the query of a
\* search, the id of a delete), Ok with the ids of the documents returned or
\* Err with the error, for a delete whether the id had been deleted before
\* (for an insert on the bare table whether the id had a row),
\* for a search the ids the vector scan had returned, and for a construction
\* the model directory it was given.
NoRet == [t |-> 0, op |-> "none", arg |-> <<>>, ok |-> TRUE, err |-> None,
          ids |-> <<>>, again |-> FALSE, hits |-> <<>>, model_dir |-> None]

Ok(t, op, arg, ids) == [NoRet EXCEPT !.t = t, !.op = op, !.arg = arg, !.ids = ids]
Err(t, op, arg, e) == [NoRet EXCEPT !.t = t, !.op = op, !.arg = arg, !.ok = FALSE, !.err = e]

\* No caller is in an operation, holds a lock or waits for one.
Returned == [op |-> "none", at |-> 0, emb |-> ZeroVec(0), err |-> None]
NoLocks ==
    /\ run = [t \in Threads |-> Returned]
    /\ held = [t \in Threads |-> {}]
    /\ waiters = [l \in Locks |-> <<>>]

\* No insert has been made on the bare table, the global handle has held
\* one instance only, and no transcription call has been made.
NoVector == [some |-> FALSE, v |-> ZeroVec(0)]
SomeVector(v) == [some |-> TRUE, v |-> v]
NoAsr == [pc |-> "idle", transport |-> "ok", body |-> <<>>, pos |-> 1,
          final_text |-> 0, success |-> FALSE, ok |-> TRUE, err |-> None, text |-> 0]

\* commands/asr.rs 10-11, 65-68: the two files of the model, in the order
\* download_asr_model fetches them.
MODEL_FILE == "model.onnx"
TOKENS_FILE == "tokens.txt"
ModelFiles == <<MODEL_FILE, TOKENS_FILE>>

\* A file of the model directory: whether it exists and how many chunks of
\* the remote file it holds.  The model directory is empty, no download
\* runs, and check_asr_model has not been asked since the last download step.
NoFile == [exists |-> FALSE, len |-> 0]
NoCheck == [some |-> FALSE, is_installed |-> FALSE]
NoDownload == [files |-> [f \in {MODEL_FILE, TOKENS_FILE} |-> NoFile],
               pc |-> "idle", i |-> 1, ret |-> None, skipped |-> {},
               checked |-> NoCheck]

\* No .wav file is in the temp directory and no transcribe_video call runs.
NoTranscribe == [wavs |-> {}, pc |-> "idle", video_id |-> 0, ret |-> None,
                 text |-> 0, ids |-> 0]

\* core/tray.rs 11: the flag starts false; no tray icon exists, no init_tray
\* call has been made.
NoTrayCall == [pc |-> "idle", ret |-> None]
NoTray == [TRAY_INITIALIZED |-> FALSE, icons |-> 0,
           call |-> [t \in Threads |-> NoTrayCall],
           calls |-> 0, passed |-> 0, failed |-> FALSE, succeeded |-> FALSE]

NoOtherCalls ==
    /\ recent = [id \in 1..MaxRows |-> NoVector]
    /\ old_documents = <<>>
    /\ stale = {}
    /\ asr = NoAsr
    /\ dl = NoDownload
    /\ tv = NoTranscribe
    /\ tray = NoTray

CanFail == faults < MaxFaults
MutatingPcs == {"add_embed", "add_insert", "add_save", "add_push",
                "del_doc", "del_cache", "clr_cache"}
Mutating(t) == th[t].pc \in MutatingPcs
Quiescent == \A t \in Threads : th[t].pc = "idle"

Init ==
    /\ document_vectors = {}
    /\ db_documents = {}
    /\ documents = <<>>
    /\ embedder \in {"Onnx", "Simple"}
    /\ th = [t \in Threads |-> Idle]
    /\ last = NoRet
    /\ next_id = 1
    /\ faults = 0
    /\ visible = {}
    /\ deletedOk = {}
    /\ wrote = {}
    /\ cleared = FALSE
    /\ snip_in = <<>>
    /\ snip_out = NoText
    /\ add_args = NoArgs
    /\ backup_files = {}
    /\ NoLocks
    /\ NoOtherCalls

\* A call returns: its locals are dropped, its result is recorded.
Return(t, r) ==
    /\ th' = [th EXCEPT ![t] = Idle]
    /\ last' = r

Goto(t, step) == th' = [th EXCEPT ![t].pc = step]

DocOf(l) == [id |-> l.id, content |-> l.content, backup_path |-> l.backup_path]

SeqIds(docs) == [i \in 1..Len(docs) |-> docs[i].id]
ResultIds(results) == [i \in 1..Len(results) |-> results[i].document.id]
HitIds(similar_docs) == [i \in 1..Len(similar_docs) |-> similar_docs[i].id]

\* ------------------------------------------------------- add_document
\* knowledge_base.rs 155-171: id and content.  An id drawn by a call that
\* fails here is never used, so the counter moves only when it is.
AddResolveWith(t, r, backup_path) ==
    /\ th[t].pc = "idle"
    /\ next_id <= MaxDocs
    /\ IF r.ok
       THEN /\ th' = [th EXCEPT ![t] =
                 [Idle EXCEPT !.pc = add_next("resolve"),
                              !.id = new_doc_id(next_id),
                              !.content = r.val,
                              !.backup_path = backup_path]]
            /\ next_id' = next_id + 1
            /\ last' = NoRet
       ELSE /\ Return(t, Err(t, "add", <<>>, r.val))
            /\ UNCHANGED next_id
    /\ wrote' = wrote \ {t}
    /\ cleared' = FALSE
    /\ UNCHANGED <<document_vectors, db_documents, documents, embedder, faults,
                   visible, deletedOk>>

\* The concurrent callers pass no backup directory.
AddResolve(t) ==
    /\ \E r \in ResolveOutcomes : AddResolveWith(t, r, NoBackup)
    /\ UNCHANGED fnvars

\* The one call add_document(add_args), lines 155-210: its content, and
\* when that is resolved its backup.
AddGiven(t) ==
    /\ next_id = 1
    /\ LET r == resolve_content(add_args.path, add_args.content)
           b == backup(add_args)
       IN  /\ AddResolveWith(t, r, b.backup_path)
           /\ backup_files' = IF r.ok THEN b.files ELSE {}
    /\ UNCHANGED <<snipvars, add_args, lockvars, tablevars, globalvars, asrvars, shellvars>>

\* line 213: self.embedder.embed(&final_content)?
AddEmbed(t) ==
    /\ th[t].pc = "add_embed"
    /\ \E fails \in EmbedOutcomes(embedder) :
         LET r == Embedder_embed(embedder, th[t].content, fails)
         IN  IF r.ok
             THEN /\ th' = [th EXCEPT ![t].emb = r.val, ![t].pc = add_next("add_embed")]
                  /\ last' = NoRet
             ELSE Return(t, Err(t, "add", <<>>, r.val))
    /\ UNCHANGED <<document_vectors, db_documents, documents, embedder, next_id,
                   faults, visible, deletedOk, wrote, cleared, fnvars>>

\* line 214: self.vector_db.insert(&doc_id, &embedding)?
AddInsert(t) ==
    /\ th[t].pc = "add_insert"
    /\ \/ /\ document_vectors' = VectorDb_insert(document_vectors, th[t].id, th[t].emb)
          /\ Goto(t, add_next("add_insert"))
          /\ wrote' = wrote \cup {t}
          /\ last' = NoRet
          /\ UNCHANGED faults
       \/ /\ CanFail
          /\ faults' = faults + 1
          /\ Return(t, Err(t, "add", <<>>, "VectorDbError"))
          /\ UNCHANGED <<document_vectors, wrote>>
    /\ UNCHANGED <<db_documents, documents, embedder, next_id, visible, deletedOk,
                   cleared, fnvars>>

\* As AddSave, but a failed save_document takes the vector row back out.
AddSave_rollback(t) ==
    /\ th[t].pc = "add_save"
    /\ \/ /\ db_documents' = VectorDb_save_document(db_documents, DocOf(th[t]))
          /\ Goto(t, add_next("add_save"))
          /\ wrote' = wrote \cup {t}
          /\ last' = NoRet
          /\ UNCHANGED <<faults, document_vectors>>
       \/ /\ CanFail
          /\ faults' = faults + 1
          /\ document_vectors' = VectorDb_delete(document_vectors, th[t].id).rows
          /\ Return(t, Err(t, "add", <<>>, "VectorDbError"))
          /\ UNCHANGED <<db_documents, wrote>>
    /\ UNCHANGED <<documents, embedder, next_id, visible, deletedOk, cleared, fnvars>>

\* lines 216-232: self.vector_db.save_document(..)?
AddSave(t) ==
    /\ th[t].pc = "add_save"
    /\ \/ /\ db_documents' = VectorDb_save_document(db_documents, DocOf(th[t]))
          /\ Goto(t, add_next("add_save"))
          /\ wrote' = wrote \cup {t}
          /\ last' = NoRet
          /\ UNCHANGED faults
       \/ /\ CanFail
          /\ faults' = faults + 1
          /\ Return(t, Err(t, "add", <<>>, "VectorDbError"))
          /\ UNCHANGED <<db_documents, wrote>>
    /\ UNCHANGED <<document_vectors, documents, embedder, next_id, visible, deletedOk,
                   cleared, fnvars>>

\* lines 235-236: push under the write lock, return the document.
AddPush(t) ==
    /\ th[t].pc = "add_push"
    /\ documents' = cache_push(documents, DocOf(th[t]))
    /\ visible' = visible \cup {th[t].id}
    /\ wrote' = wrote \ {t}
    /\ Return(t, Ok(t, "add", <<>>, <<th[t].id>>))
    /\ UNCHANGED <<document_vectors, db_documents, embedder, next_id, faults,
                   deletedOk, cleared, fnvars>>

\* ------------------------------------------------------------- search
\* line 320: self.embedder.embed(query)?
SearchEmbed(t) ==
    /\ th[t].pc = "idle"
    /\ \E query \in Texts, limit \in CallerLimits, fails \in EmbedOutcomes(embedder) :
         LET r == Embedder_embed(embedder, query, fails)
         IN  IF r.ok
             THEN /\ th' = [th EXCEPT ![t] =
                       [Idle EXCEPT !.pc = "search_db", !.content = query,
                                    !.emb = r.val, !.limit = limit]]
                  /\ last' = NoRet
             ELSE Return(t, Err(t, "search", query, r.val))
    /\ wrote' = wrote \ {t}
    /\ UNCHANGED <<document_vectors, db_documents, documents, embedder, next_id,
                   faults, visible, deletedOk, cleared, fnvars>>

\* line 321: self.vector_db.search(&query_embedding, limit)?
SearchDb(t) ==
    /\ th[t].pc = "search_db"
    /\ \/ /\ \E hits \in VectorDb_search(document_vectors, th[t].emb, th[t].limit) :
               th' = [th EXCEPT ![t].similar_docs = hits, ![t].pc = "search_join"]
          /\ last' = NoRet
          /\ UNCHANGED faults
       \/ /\ CanFail
          /\ faults' = faults + 1
          /\ Return(t, Err(t, "search", th[t].content, "VectorDbError"))
    /\ UNCHANGED <<document_vectors, db_documents, documents, embedder, next_id,
                   visible, deletedOk, wrote, cleared, fnvars>>

\* lines 323-343: the join under the read lock.
SearchJoin(t) ==
    /\ th[t].pc = "search_join"
    /\ Return(t, [Ok(t, "search", th[t].content,
                      ResultIds(search_join(th[t].similar_docs, documents)))
                    EXCEPT !.hits = HitIds(th[t].similar_docs)])
    /\ UNCHANGED <<document_vectors, db_documents, documents, embedder, next_id,
                   faults, visible, deletedOk, wrote, cleared, fnvars>>

\* ----------------------------------------------------- list_documents
ListDocuments(t) ==
    /\ th[t].pc = "idle"
    /\ Return(t, Ok(t, "list", <<>>, SeqIds(documents)))
    /\ wrote' = wrote \ {t}
    /\ UNCHANGED <<document_vectors, db_documents, documents, embedder, next_id,
                   faults, visible, deletedOk, cleared, fnvars>>

\* ---------------------------------------------------- delete_document
DeleteErr(t, id) ==
    [Err(t, "delete", <<id>>, "VectorDbError") EXCEPT !.again = id \in deletedOk]

\* line 348: self.vector_db.delete(id)?   The caller names an id it was
\* given; the id may be gone from every store by now.
DeleteVector(t) ==
    /\ th[t].pc = "idle"
    /\ \E id \in visible :
         \/ LET r == VectorDb_delete(document_vectors, id)
            IN  /\ IF r.ok
                   THEN /\ document_vectors' = r.rows
                        /\ th' = [th EXCEPT ![t] = [Idle EXCEPT !.pc = "del_doc", !.id = id]]
                        /\ last' = NoRet
                   ELSE /\ Return(t, DeleteErr(t, id))
                        /\ UNCHANGED document_vectors
                /\ UNCHANGED faults
         \/ /\ CanFail
            /\ faults' = faults + 1
            /\ Return(t, DeleteErr(t, id))
            /\ UNCHANGED document_vectors
    /\ wrote' = wrote \ {t}
    /\ cleared' = FALSE
    /\ UNCHANGED <<db_documents, documents, embedder, next_id, visible, deletedOk, fnvars>>

\* line 349: self.vector_db.delete_document(id)?
DeleteRow(t) ==
    /\ th[t].pc = "del_doc"
    /\ \/ LET r == VectorDb_delete_document(db_documents, th[t].id)
          IN  /\ IF r.ok
                 THEN /\ db_documents' = r.rows
                      /\ Goto(t, "del_cache")
                      /\ last' = NoRet
                 ELSE /\ Return(t, DeleteErr(t, th[t].id))
                      /\ UNCHANGED db_documents
              /\ UNCHANGED faults
       \/ /\ CanFail
          /\ faults' = faults + 1
          /\ Return(t, DeleteErr(t, th[t].id))
          /\ UNCHANGED db_documents
    /\ UNCHANGED <<document_vectors, documents, embedder, next_id, visible, deletedOk,
                   wrote, cleared, fnvars>>

\* lines 350-351: retain under the write lock.
DeleteCache(t) ==
    /\ th[t].pc = "del_cache"
    /\ documents' = cache_retain(documents, th[t].id)
    /\ deletedOk' = deletedOk \cup {th[t].id}
    /\ Return(t, [Ok(t, "delete", <<th[t].id>>, <<>>) EXCEPT !.again = th[t].id \in deletedOk])
    /\ UNCHANGED <<document_vectors, db_documents, embedder, next_id, faults, visible,
                   wrote, cleared, fnvars>>

\* ----------------------------------------------------------- clear_all
\* line 356: VectorDb::clear_all, two DELETE statements under one lock,
\* each committed on its own.
ClearTables(t) ==
    /\ th[t].pc = "idle"
    /\ \/ /\ document_vectors' = {}
          /\ db_documents' = {}
          /\ th' = [th EXCEPT ![t] = [Idle EXCEPT !.pc = "clr_cache"]]
          /\ last' = NoRet
          /\ UNCHANGED faults
       \/ /\ CanFail
          /\ faults' = faults + 1
          /\ UNCHANGED <<document_vectors, db_documents>>
          /\ Return(t, Err(t, "clear", <<>>, "VectorDbError"))
       \/ /\ CanFail
          /\ faults' = faults + 1
          /\ document_vectors' = {}
          /\ UNCHANGED db_documents
          /\ Return(t, Err(t, "clear", <<>>, "VectorDbError"))
    /\ wrote' = wrote \ {t}
    /\ cleared' = FALSE
    /\ UNCHANGED <<documents, embedder, next_id, visible, deletedOk, fnvars>>

\* lines 357-358: clear under the write lock.
ClearCache(t) ==
    /\ th[t].pc = "clr_cache"
    /\ documents' = cache_clear(documents)
    /\ cleared' = (\A u \in Threads \ {t} : ~Mutating(u))
    /\ Return(t, Ok(t, "clear", <<>>, <<>>))
    /\ UNCHANGED <<document_vectors, db_documents, embedder, next_id, faults, visible,
                   deletedOk, wrote, fnvars>>

\* ------------------------------------------------------- with_model_dir
\* The model directory handed to with_model_dir: none, one OnnxEmbedder::new
\* loads, or one it fails on.
ModelDirs == {None, "loads", "fails"}

\* As select_embedder, but every supplied directory gives the semantic provider.
select_embedder_unchecked(model_dir) == IF model_dir = None THEN "Simple" ELSE "Onnx"

\* knowledge_base.rs 104-118
select_embedder(model_dir) == IF model_dir = "loads" THEN "Onnx" ELSE "Simple"

\* A new process constructs the facade: VectorDb::new opens the file and
\* creates the schema (the only `?` of the constructor), the provider is
\* chosen, the cache is loaded from the documents table; a failed load is
\* ignored (if let Ok).  When construction fails there is no new instance.
WithModelDir ==
    /\ Quiescent
    /\ \E model_dir \in ModelDirs :
         \/ /\ embedder' = select_embedder(model_dir)
            /\ \/ /\ documents' \in VectorDb_load_documents(db_documents)
                  /\ UNCHANGED faults
               \/ /\ CanFail
                  /\ faults' = faults + 1
                  /\ documents' = <<>>
            /\ last' = [Ok(0, "init", <<>>, <<>>) EXCEPT !.model_dir = model_dir]
         \/ /\ CanFail
            /\ faults' = faults + 1
            /\ last' = [Err(0, "init", <<>>, "ConnectionFailed") EXCEPT !.model_dir = model_dir]
            /\ UNCHANGED <<embedder, documents>>
    /\ wrote' = {}
    /\ cleared' = FALSE
    /\ UNCHANGED <<document_vectors, db_documents, th, next_id, visible, deletedOk, fnvars>>

Next ==
    \/ \E t \in Threads :
         \/ AddResolve(t) \/ AddEmbed(t) \/ AddInsert(t) \/ AddSave(t) \/ AddPush(t)
         \/ SearchEmbed(t) \/ SearchDb(t) \/ SearchJoin(t)
         \/ ListDocuments(t)
         \/ DeleteVector(t) \/ DeleteRow(t) \/ DeleteCache(t)
         \/ ClearTables(t) \/ ClearCache(t)
    \/ WithModelDir

Spec == Init /\ [][Next]_vars

\* ------------------------------------------------- the snippet rule alone
SnipAlphabet == {97, 480, 20013, 128512}
SnipLens == {0, 1, SnippetChars \div 4 + 1, SnippetChars \div 3 + 1, SnippetChars \div 2 + 1,
             SnippetChars - 1, SnippetChars, SnippetChars + 1}
Run(c, n) == [i \in 1..n |-> c]
SnipInputs == {Run(c1, n1) \o Run(c2, n2) :
                 c1 \in SnipAlphabet, c2 \in SnipAlphabet, n1 \in SnipLens, n2 \in 0..MaxTail}

InitSnippet ==
    /\ document_vectors = {}
    /\ db_documents = {}
    /\ documents = <<>>
    /\ embedder = "Simple"
    /\ th = [t \in Threads |-> Idle]
    /\ last = NoRet
    /\ next_id = 1
    /\ faults = 0
    /\ visible = {}
    /\ deletedOk = {}
    /\ wrote = {}
    /\ cleared = FALSE
    /\ snip_in \in SnipInputs
    /\ snip_out = NoText
    /\ add_args = NoArgs
    /\ backup_files = {}
    /\ NoLocks
    /\ NoOtherCalls

BuildSnippet ==
    /\ ~snip_out.some
    /\ snip_out' = SomeText(snippet(snip_in))
    /\ UNCHANGED <<snip_in, kbvars, addvars, lockvars, tablevars, globalvars, asrvars, shellvars>>

NextSnippet == BuildSnippet

SpecSnippet == InitSnippet /\ [][NextSnippet]_vars

\* ------------------------------------------------- the vector scan alone
\* One search that has embedded its query, over any table of rows: vectors
\* of up to MaxDim components, a dimension column that may exceed what the
\* blob holds, and a cache holding any of the ids.
ScanVectors ==
    UNION {{[len |-> n, c |-> [i \in S |-> 1], n2 |-> 1] : S \in SUBSET (0..(n - 1))} :
              n \in 0..MaxDim}

ScanRowsOf(id) ==
    {[document_id |-> id, embedding |-> v, dimension |-> d] :
        v \in ScanVectors, d \in 0..MaxDim}

RECURSIVE ScanTables(_)
ScanTables(n) ==
    IF n = 0 THEN {{}}
    ELSE LET fewer == ScanTables(n - 1)
         IN  fewer \cup {T \cup {r} : T \in fewer, r \in ScanRowsOf(n)}

ScanDoc(id) == DocOf([Idle EXCEPT !.id = id, !.content = <<97>>])
ScanCaches == UNION {Perms({ScanDoc(id) : id \in I}) : I \in SUBSET (1..MaxRows)}

InitScan ==
    /\ document_vectors \in ScanTables(MaxRows)
    /\ db_documents = {}
    /\ documents \in ScanCaches
    /\ embedder = "Simple"
    /\ \E q \in ScanVectors, n \in 0..MaxRows :
          th = [t \in Threads |->
                  IF t = 1 THEN [Idle EXCEPT !.pc = "search_db", !.emb = q, !.limit = n]
                  ELSE Idle]
    /\ last = NoRet
    /\ next_id = MaxRows + 1
    /\ faults = 0
    /\ visible = {}
    /\ deletedOk = {}
    /\ wrote = {}
    /\ cleared = FALSE
    /\ snip_in = <<>>
    /\ snip_out = NoText
    /\ add_args = NoArgs
    /\ backup_files = {}
    /\ NoLocks
    /\ NoOtherCalls

NextScan == \E t \in Threads : SearchDb(t) \/ SearchJoin(t)

SpecScan == InitScan /\ [][NextScan]_vars

\* ----------------------------------------------------- the embedder alone
\* Callers that have resolved texts of up to EmbedLen scalars (one that
\* wraps around the dimension among them) embed them, next to searches.
EmbedAlphabet == {97, 98, Dimension - 1}
EmbedTexts == SeqsUpTo(EmbedAlphabet, EmbedLen)

InitEmbed ==
    /\ document_vectors = {}
    /\ db_documents = {}
    /\ documents = <<>>
    /\ embedder \in {"Onnx", "Simple"}
    /\ \E texts \in [Threads -> EmbedTexts] :
          th = [t \in Threads |->
                  [Idle EXCEPT !.pc = add_next("resolve"), !.id = t, !.content = texts[t]]]
    /\ last = NoRet
    /\ next_id = NumThreads + 1
    /\ faults = 0
    /\ visible = {}
    /\ deletedOk = {}
    /\ wrote = {}
    /\ cleared = FALSE
    /\ snip_in = <<>>
    /\ snip_out = NoText
    /\ add_args = NoArgs
    /\ backup_files = {}
    /\ NoLocks
    /\ NoOtherCalls

NextEmbed == \E t \in Threads : AddEmbed(t) \/ AddInsert(t) \/ SearchEmbed(t) \/ SearchDb(t)

SpecEmbed == InitEmbed /\ [][NextEmbed]_vars

\* ------------------------------------------------- one add_document call
InitAdd ==
    /\ document_vectors = {}
    /\ db_documents = {}
    /\ documents = <<>>
    /\ embedder \in {"Onnx", "Simple"}
    /\ th = [t \in Threads |-> Idle]
    /\ last = NoRet
    /\ next_id = 1
    /\ faults = 0
    /\ visible = {}
    /\ deletedOk = {}
    /\ wrote = {}
    /\ cleared = FALSE
    /\ snip_in = <<>>
    /\ snip_out = NoText
    /\ add_args \in AddArgs
    /\ backup_files = {}
    /\ NoLocks
    /\ NoOtherCalls

NextAdd ==
    \E t \in Threads :
        AddGiven(t) \/ AddEmbed(t) \/ AddInsert(t) \/ AddSave(t) \/ AddPush(t)

SpecAdd == InitAdd /\ [][NextAdd]_vars

\* --------------------------------------------------- the global instance
\* commands/ai.rs: every command clones the handle held by KNOWLEDGE_BASE
\* and runs its operation on the clone; init_knowledge_base constructs a
\* new facade on the same file and stores it in the global, whatever calls
\* are running.  A call that cloned the handle before keeps the earlier
\* facade, with its cache, alive until it returns.  The model directory is
\* the same at every construction, so the provider is the same.
InitKnowledgeBase ==
    /\ \/ /\ \/ /\ documents' \in VectorDb_load_documents(db_documents)
                /\ UNCHANGED faults
             \/ /\ CanFail
                /\ faults' = faults + 1
                /\ documents' = <<>>
          /\ stale' = stale \cup {th[t].id : t \in {u \in Threads : th[u].pc # "idle"}}
          /\ last' = Ok(0, "init", <<>>, <<>>)
       \/ /\ CanFail
          /\ faults' = faults + 1
          /\ last' = Err(0, "init", <<>>, "ConnectionFailed")
          /\ UNCHANGED <<documents, stale>>
    /\ UNCHANGED <<document_vectors, db_documents, embedder, th, next_id, visible,
                   deletedOk, wrote, cleared, old_documents, snipvars, addvars,
                   lockvars, tablevars, asrvars, shellvars>>

\* knowledge_base.rs 235-236, in a call that holds a clone of an earlier
\* facade: the push goes to that facade's cache.
StaleAddPush(t) ==
    /\ th[t].pc = "add_push"
    /\ th[t].id \in stale
    /\ old_documents' = cache_push(old_documents, DocOf(th[t]))
    /\ visible' = visible \cup {th[t].id}
    /\ wrote' = wrote \ {t}
    /\ Return(t, Ok(t, "add", <<>>, <<th[t].id>>))
    /\ UNCHANGED <<document_vectors, db_documents, documents, embedder, next_id, faults,
                   deletedOk, cleared, stale, snipvars, addvars, lockvars, tablevars,
                   asrvars, shellvars>>

NextGlobal ==
    \/ \E t \in Threads :
         \/ AddResolve(t) \/ AddEmbed(t) \/ AddInsert(t) \/ AddSave(t)
         \/ (th[t].id \notin stale /\ AddPush(t))
         \/ StaleAddPush(t)
         \/ ListDocuments(t)
    \/ InitKnowledgeBase

SpecGlobal == Init /\ [][NextGlobal]_vars

\* ------------------------------------------------- the vector table alone
\* VectorDb::insert and VectorDb::delete called in any order on ids that
\* may repeat, with vectors of any length up to MaxDim.
InitTable ==
    /\ document_vectors = {}
    /\ db_documents = {}
    /\ documents = <<>>
    /\ embedder = "Simple"
    /\ th = [t \in Threads |-> Idle]
    /\ last = NoRet
    /\ next_id = 1
    /\ faults = 0
    /\ visible = {}
    /\ deletedOk = {}
    /\ wrote = {}
    /\ cleared = FALSE
    /\ snip_in = <<>>
    /\ snip_out = NoText
    /\ add_args = NoArgs
    /\ backup_files = {}
    /\ NoLocks
    /\ NoOtherCalls

\* vector_db.rs 114-127
TableInsert ==
    /\ \E id \in 1..MaxRows, v \in ScanVectors :
         \/ /\ document_vectors' = VectorDb_insert(document_vectors, id, v)
            /\ recent' = [recent EXCEPT ![id] = SomeVector(v)]
            /\ last' = [Ok(0, "insert", <<id>>, <<>>) EXCEPT !.again =
                                \E r \in document_vectors : r.document_id = id]
            /\ UNCHANGED faults
         \/ /\ CanFail
            /\ faults' = faults + 1
            /\ last' = [Err(0, "insert", <<id>>, "InsertFailed") EXCEPT !.again =
                                \E r \in document_vectors : r.document_id = id]
            /\ UNCHANGED <<document_vectors, recent>>
    /\ UNCHANGED <<db_documents, documents, embedder, th, next_id, visible, deletedOk,
                   wrote, cleared, snipvars, addvars, lockvars, globalvars, asrvars, shellvars>>

\* vector_db.rs 166-173
TableDelete ==
    /\ \E id \in 1..MaxRows :
         \/ LET r == VectorDb_delete(document_vectors, id)
            IN  /\ document_vectors' = r.rows
                /\ recent' = [recent EXCEPT ![id] = NoVector]
                /\ last' = Ok(0, "delete", <<id>>, <<>>)
                /\ UNCHANGED faults
         \/ /\ CanFail
            /\ faults' = faults + 1
            /\ last' = Err(0, "delete", <<id>>, "DatabaseError")
            /\ UNCHANGED <<document_vectors, recent>>
    /\ UNCHANGED <<db_documents, documents, embedder, th, next_id, visible, deletedOk,
                   wrote, cleared, snipvars, addvars, lockvars, globalvars, asrvars, shellvars>>

NextTable == TableInsert \/ TableDelete

SpecTable == InitTable /\ [][NextTable]_vars

\* --------------------------------------------------- the transcription call
\* commands/video.rs, call_asr_service.  A line of the response body is a
\* `data: [DONE]` marker, a data line whose JSON has status "error", one
\* with status "success" and a text (0 for a missing or empty text), one
\* with any other status, or a line that is skipped (no `data: ` prefix,
\* not JSON, no string status).
AsrLines ==
    [kind : {"done", "error", "status", "skip"}, text : {0}]
        \cup [kind : {"success"}, text : 0..MaxAsrText]
AsrBodies == UNION {[1..n -> AsrLines] : n \in 0..MaxEvents}

\* As asr_line, but the [DONE] marker is skipped like any other line.
asr_line_no_break(st, line) ==
    CASE line.kind = "error" ->
            [st EXCEPT !.pc = "returned", !.ok = FALSE, !.err = "AsrFailed"]
      [] line.kind = "success" ->
            [st EXCEPT !.final_text = line.text, !.success = TRUE, !.pos = @ + 1]
      [] OTHER -> [st EXCEPT !.pos = @ + 1]

\* video.rs 158-176: one iteration of `for line in body.lines()`.
asr_line(st, line) ==
    CASE line.kind = "done" -> [st EXCEPT !.pc = "after_loop"]
      [] line.kind = "error" ->
            [st EXCEPT !.pc = "returned", !.ok = FALSE, !.err = "AsrFailed"]
      [] line.kind = "success" ->
            [st EXCEPT !.final_text = line.text, !.success = TRUE, !.pos = @ + 1]
      [] OTHER -> [st EXCEPT !.pos = @ + 1]

\* video.rs 135-155: the request is sent and the whole body read; either
\* can fail, and then the call returns that error.
AsrCall ==
    /\ asr.pc = "idle"
    /\ \/ \E body \in AsrBodies :
            asr' = [NoAsr EXCEPT !.pc = "loop", !.body = body]
       \/ \E e \in {"send_fails", "read_fails"} :
            asr' = [NoAsr EXCEPT !.pc = "returned", !.transport = e,
                                 !.ok = FALSE, !.err = e]
    /\ UNCHANGED <<kbvars, snipvars, addvars, lockvars, tablevars, globalvars, shellvars>>

AsrLine ==
    /\ asr.pc = "loop"
    /\ asr.pos <= Len(asr.body)
    /\ asr' = asr_line(asr, asr.body[asr.pos])
    /\ UNCHANGED <<kbvars, snipvars, addvars, lockvars, tablevars, globalvars, shellvars>>

\* The iterator is exhausted.
AsrEnd ==
    /\ asr.pc = "loop"
    /\ asr.pos > Len(asr.body)
    /\ asr' = [asr EXCEPT !.pc = "after_loop"]
    /\ UNCHANGED <<kbvars, snipvars, addvars, lockvars, tablevars, globalvars, shellvars>>

\* video.rs 179-183
AsrReturn ==
    /\ asr.pc = "after_loop"
    /\ asr' = IF ~asr.success
              THEN [asr EXCEPT !.pc = "returned", !.ok = FALSE, !.err = "NoResult"]
              ELSE [asr EXCEPT !.pc = "returned", !.text = asr.final_text]
    /\ UNCHANGED <<kbvars, snipvars, addvars, lockvars, tablevars, globalvars, shellvars>>

NextAsr == AsrCall \/ AsrLine \/ AsrEnd \/ AsrReturn

SpecAsr == Init /\ [][NextAsr]_vars

\* ------------------------------------------------------ the model download
\* commands/asr.rs.  The remote copy of each model file arrives as
\* MaxChunks chunks; a file of the model directory is complete when it
\* exists and holds them all.
Complete(file) == file.exists /\ file.len = MaxChunks

\* asr.rs 42-55: the status is computed from the existence of the two files.
check_asr_model(files) ==
    LET has_model == files[MODEL_FILE].exists
        has_tokens == files[TOKENS_FILE].exists
    IN  [some |-> TRUE, is_installed |-> has_model /\ has_tokens]

CheckAsrModel ==
    /\ dl' = [dl EXCEPT !.checked = check_asr_model(dl.files)]
    /\ UNCHANGED <<kbvars, snipvars, addvars, lockvars, tablevars, globalvars,
                   asrvars, tv, tray>>

\* The call returns r; nothing else of the model directory changes.
DownloadReturns(st, r) == [st EXCEPT !.pc = "idle", !.i = 1, !.ret = r]

\* asr.rs 58-63: the model directory is created; a failure returns at once.
DownloadCall ==
    /\ dl.pc = "idle"
    /\ \/ dl' = [dl EXCEPT !.pc = "file", !.i = 1, !.ret = None,
                            !.checked = NoCheck]
       \/ dl' = [DownloadReturns(dl, "CreateDirFailed") EXCEPT !.checked = NoCheck]
    /\ UNCHANGED <<kbvars, snipvars, addvars, lockvars, tablevars, globalvars,
                   asrvars, tv, tray>>

\* asr.rs 70-107: one file of the list.  A file that exists is skipped,
\* whatever it holds.  Otherwise the request is sent; a request that fails
\* or is answered with an error status returns before the file is created;
\* File::create leaves an empty file, or fails.
DownloadFile ==
    /\ dl.pc = "file"
    /\ dl.i <= Len(ModelFiles)
    /\ LET f == ModelFiles[dl.i]
       IN  IF dl.files[f].exists
           THEN dl' = [dl EXCEPT !.i = @ + 1, !.checked = NoCheck,
                          !.skipped = IF Complete(dl.files[f]) THEN @ ELSE @ \cup {f}]
           ELSE \/ \E e \in {"RequestFailed", "HttpStatus", "CreateFileFailed"} :
                     dl' = [DownloadReturns(dl, e) EXCEPT !.checked = NoCheck]
                \/ dl' = [dl EXCEPT !.pc = "stream", !.checked = NoCheck,
                               !.files[f] = [exists |-> TRUE, len |-> 0]]
    /\ UNCHANGED <<kbvars, snipvars, addvars, lockvars, tablevars, globalvars,
                   asrvars, tv, tray>>

\* asr.rs 110-126: one item of the byte stream.  A chunk is appended to the
\* file; a stream error or a write error returns, and the file stays as
\* the chunks before left it.
DownloadChunk ==
    /\ dl.pc = "stream"
    /\ LET f == ModelFiles[dl.i]
       IN  /\ dl.files[f].len < MaxChunks
           /\ \/ dl' = [dl EXCEPT !.files[f].len = @ + 1, !.checked = NoCheck]
              \/ \E e \in {"StreamError", "WriteFailed"} :
                     dl' = [DownloadReturns(dl, e) EXCEPT !.checked = NoCheck]
    /\ UNCHANGED <<kbvars, snipvars, addvars, lockvars, tablevars, globalvars,
                   asrvars, tv, tray>>

\* asr.rs 110, 128-134: the stream has ended; the next file follows.
DownloadFileDone ==
    /\ dl.pc = "stream"
    /\ dl.files[ModelFiles[dl.i]].len = MaxChunks
    /\ dl' = [dl EXCEPT !.pc = "file", !.i = @ + 1, !.checked = NoCheck]
    /\ UNCHANGED <<kbvars, snipvars, addvars, lockvars, tablevars, globalvars,
                   asrvars, tv, tray>>

\* asr.rs 137-139
DownloadDone ==
    /\ dl.pc = "file"
    /\ dl.i > Len(ModelFiles)
    /\ dl' = [DownloadReturns(dl, "Ok") EXCEPT !.checked = NoCheck]
    /\ UNCHANGED <<kbvars, snipvars, addvars, lockvars, tablevars, globalvars,
                   asrvars, tv, tray>>

NextDownload ==
    CheckAsrModel \/ DownloadCall \/ DownloadFile \/ DownloadChunk
        \/ DownloadFileDone \/ DownloadDone

SpecDownload == Init /\ [][NextDownload]_vars

\* ------------------------------------------------- the transcription command
\* commands/video.rs, transcribe_video.  The temp directory holds the .wav
\* files of the ids in tv.wavs; every call draws a fresh id (a v4 UUID).
TranscribeReturns(st, r) == [st EXCEPT !.pc = "idle", !.ret = r]

\* video.rs 46-51: the temp directory is created, or the call returns the
\* error; the id is drawn and the audio path built from it.
TranscribeCall ==
    /\ tv.pc = "idle"
    /\ tv.ids < MaxVideos
    /\ \/ tv' = [tv EXCEPT !.pc = "extract", !.ids = @ + 1, !.video_id = tv.ids + 1,
                            !.ret = None, !.text = 0]
       \/ tv' = [TranscribeReturns(tv, "CreateDirFailed") EXCEPT !.video_id = 0, !.text = 0]
    /\ UNCHANGED <<kbvars, snipvars, addvars, lockvars, tablevars, globalvars,
                   asrvars, dl, tray>>

\* video.rs 54-55, 88-120: ffmpeg writes the .wav file.  The process cannot
\* be run: no file, the error is returned.  It exits with a failure status:
\* the error is returned, and the output it had written by then, if any,
\* stays.  It succeeds: the file exists.
extract_audio_with_ffmpeg ==
    /\ tv.pc = "extract"
    /\ \/ tv' = TranscribeReturns(tv, "FfmpegNotRun")
       \/ \E wrote_some \in BOOLEAN :
            tv' = [TranscribeReturns(tv, "FfmpegFailed") EXCEPT
                      !.wavs = IF wrote_some THEN @ \cup {tv.video_id} ELSE @]
       \/ tv' = [tv EXCEPT !.pc = "asr", !.wavs = @ \cup {tv.video_id}]
    /\ UNCHANGED <<kbvars, snipvars, addvars, lockvars, tablevars, globalvars,
                   asrvars, dl, tray>>

\* video.rs 58-63: the transcription service is called.  Its error is
\* returned by `?`; after its text the file is removed, the result of the
\* removal is dropped, and the text is returned.
transcribe_video ==
    /\ tv.pc = "asr"
    /\ \/ \E e \in {"send_fails", "read_fails", "AsrFailed", "NoResult"} :
            tv' = TranscribeReturns(tv, e)
       \/ \E text \in 0..MaxAsrText, removed \in BOOLEAN :
            tv' = [TranscribeReturns(tv, "Ok") EXCEPT
                      !.text = text,
                      !.wavs = IF removed THEN @ \ {tv.video_id} ELSE @]
    /\ UNCHANGED <<kbvars, snipvars, addvars, lockvars, tablevars, globalvars,
                   asrvars, dl, tray>>

NextTranscribe == TranscribeCall \/ extract_audio_with_ffmpeg \/ transcribe_video

SpecTranscribe == Init /\ [][NextTranscribe]_vars

\* ------------------------------------------------------------- the tray
\* core/tray.rs, init_tray, called by any number of callers.
TrayReturns(st, t, r) == [st EXCEPT !.call[t] = [pc |-> "idle", ret |-> r]]

\* tray.rs 15-17: swap(true) stores true and yields the value before.  A
\* caller that reads true returns the error; one that reads false goes on.
TraySwap(t) ==
    /\ tray.call[t].pc = "idle"
    /\ tray.calls < MaxCalls
    /\ LET was == tray.TRAY_INITIALIZED
           st == [tray EXCEPT !.TRAY_INITIALIZED = TRUE, !.calls = @ + 1]
       IN  tray' = IF was
                   THEN TrayReturns(st, t, "AlreadyInitialized")
                   ELSE [st EXCEPT !.call[t] = [pc |-> "menu", ret |-> None],
                                   !.passed = @ + 1]
    /\ UNCHANGED <<kbvars, snipvars, addvars, lockvars, tablevars, globalvars,
                   asrvars, dl, tv>>

\* tray.rs 21, 36-50: the menu is created, or its error is returned.
create_tray_menu(t) ==
    /\ tray.call[t].pc = "menu"
    /\ \/ tray' = [tray EXCEPT !.call[t].pc = "build"]
       \/ tray' = [TrayReturns(tray, t, "MenuFailed") EXCEPT !.failed = TRUE]
    /\ UNCHANGED <<kbvars, snipvars, addvars, lockvars, tablevars, globalvars,
                   asrvars, dl, tv>>

\* tray.rs 23-32: the icon is built and Ok returned, or the error of the
\* build is returned.
TrayBuild(t) ==
    /\ tray.call[t].pc = "build"
    /\ \/ tray' = [TrayReturns(tray, t, "Ok") EXCEPT !.icons = @ + 1, !.succeeded = TRUE]
       \/ tray' = [TrayReturns(tray, t, "BuildFailed") EXCEPT !.failed = TRUE]
    /\ UNCHANGED <<kbvars, snipvars, addvars, lockvars, tablevars, globalvars,
                   asrvars, dl, tv>>

init_tray(t) == TraySwap(t) \/ create_tray_menu(t) \/ TrayBuild(t)

NextTray == \E t \in Threads : init_tray(t)

SpecTray == Init /\ [][NextTray]_vars

\* --------------------------------------------------------- the locks alone
\* The facade operations as their lock events.  A caller asks for a lock,
\* is granted it when it is first in line and the lock is compatible with
\* its holders, and gives it back at the end of the statement.
\* The text every caller embeds.
LockText == <<97, 97>>
Event(t) == LockProgram(run[t].op, embedder)[run[t].at]
InOp(t) == run[t].op # "none"
Advance(t) ==
    IF run[t].at = Len(LockProgram(run[t].op, embedder)) THEN Returned
    ELSE [run[t] EXCEPT !.at = @ + 1]

HoldersOf(lock) == UNION {{h \in held[t] : h.lock = lock} : t \in Threads}
Compatible(lock, mode) ==
    IF mode = "r" THEN \A h \in HoldersOf(lock) : h.mode = "r"
    ELSE HoldersOf(lock) = {}
Waiting(t, lock) == \E i \in 1..Len(waiters[lock]) : waiters[lock][i] = t

LockCall(t) ==
    /\ ~InOp(t)
    /\ \E op \in Ops : run' = [run EXCEPT ![t] = [Returned EXCEPT !.op = op, !.at = 1]]
    /\ UNCHANGED <<held, waiters, kbvars, snipvars, addvars, tablevars, globalvars, asrvars, shellvars>>

LockRequest(t) ==
    /\ InOp(t)
    /\ Event(t).e = "acq"
    /\ ~Waiting(t, Event(t).lock)
    /\ waiters' = [waiters EXCEPT ![Event(t).lock] = Append(@, t)]
    /\ UNCHANGED <<run, held, kbvars, snipvars, addvars, tablevars, globalvars, asrvars, shellvars>>

LockAcquire(t) ==
    /\ InOp(t)
    /\ Event(t).e = "acq"
    /\ waiters[Event(t).lock] # <<>>
    /\ Head(waiters[Event(t).lock]) = t
    /\ Compatible(Event(t).lock, Event(t).mode)
    /\ waiters' = [waiters EXCEPT ![Event(t).lock] = Tail(@)]
    /\ held' = [held EXCEPT ![t] = @ \cup {[lock |-> Event(t).lock, mode |-> Event(t).mode]}]
    /\ run' = [run EXCEPT ![t] = Advance(t)]
    /\ UNCHANGED <<kbvars, snipvars, addvars, tablevars, globalvars, asrvars, shellvars>>

\* The end of the statement; a fallible one may return its error.  The
\* statement under the embedder mutex is Embedder::embed of the text, whose
\* result the caller keeps or whose error it returns.
LockRelease(t) ==
    /\ InOp(t)
    /\ Event(t).e = "rel"
    /\ held' = [held EXCEPT ![t] = {h \in @ : h.lock # Event(t).lock}]
    /\ IF Event(t).lock = "embedder"
       THEN \E fails \in EmbedOutcomes(embedder) :
               LET r == Embedder_embed(embedder, LockText, fails)
               IN  run' = [run EXCEPT ![t] =
                             IF r.ok THEN [Advance(t) EXCEPT !.emb = r.val]
                             ELSE [Returned EXCEPT !.err = r.val]]
       ELSE \/ run' = [run EXCEPT ![t] = Advance(t)]
            \/ /\ Event(t).fallible
               /\ held'[t] = {}
               /\ run' = [run EXCEPT ![t] = [Returned EXCEPT !.err = "VectorDbError"]]
    /\ UNCHANGED <<waiters, kbvars, snipvars, addvars, tablevars, globalvars, asrvars, shellvars>>

LockStep(t) == LockRequest(t) \/ LockAcquire(t) \/ LockRelease(t)
NextLocks == \E t \in Threads : LockCall(t) \/ LockStep(t)

\* Fair scheduling: a caller that can take a step eventually does.
SpecLocks == Init /\ [][NextLocks]_vars /\ \A t \in Threads : WF_vars(LockStep(t))

\* ================================================================ claims
VecIds == {r.document_id : r \in document_vectors}
DocIds == {r.id : r \in db_documents}
CacheIdSet == {documents[i].id : i \in 1..Len(documents)}
CacheDocs == {documents[i] : i \in 1..Len(documents)}

\* The vector the current provider gives a text when it does not fail.
EmbeddingOf(text) == Embedder_embed(embedder, text, FALSE).val

\* Every result a search for (query, limit) can return when it runs in the
\* current state without being interleaved with another call.
SearchResults(query, limit) ==
    {search_join(hits, documents) :
        hits \in VectorDb_search(document_vectors, EmbeddingOf(query), limit)}

\* C1: with no storage failure, whenever no call is in progress the ids in
\* the cache are the ids in the documents table.
CacheMatchesStore ==
    (Quiescent /\ faults = 0) => CacheIdSet = DocIds

\* C2: with no storage failure, whenever no call is in progress the ids in
\* the document_vectors table are the ids in the documents table.
VectorsMatchDocuments ==
    (Quiescent /\ faults = 0) => VecIds = DocIds

\* C3: every step of a delete_document(id) issued after a delete_document(id)
\* that returned Ok leaves both tables and the cache as they are, and the
\* call returns Ok unless a storage failure hits it.
SecondDeleteStep(t) ==
    \/ /\ th[t].pc \in {"del_doc", "del_cache"}
       /\ th'[t] # th[t]
       /\ th[t].id \in deletedOk
    \/ /\ th[t].pc = "idle"
       /\ th'[t].pc = "del_doc"
       /\ th'[t].id \in deletedOk
    \/ /\ th[t].pc = "idle"
       /\ last'.t = t /\ last'.op = "delete" /\ last'.again

DeleteIdempotent ==
    [][\A t \in Threads : SecondDeleteStep(t) =>
          /\ UNCHANGED <<document_vectors, db_documents, documents>>
          /\ (last'.t = t /\ faults' = faults) => last'.ok]_vars

SecondDeleteReturned ==
    last.op = "delete" /\ last.ok /\ last.again

\* C4: once clear_all has returned Ok, and until a mutating call starts,
\* list_documents and every search return an empty sequence.
ClearLeavesEmpty ==
    cleared =>
        /\ documents = <<>>
        /\ \A q \in Texts, n \in Limits : SearchResults(q, n) = {<<>>}
        /\ \A t \in Threads : th[t].pc = "search_join" =>
               search_join(th[t].similar_docs, documents) = <<>>
        /\ (last.op \in {"search", "list"} /\ last.ok) => last.ids = <<>>

SearchAfterClear ==
    cleared /\ visible # {} /\ last.op = "search" /\ last.ok

\* C5: an add_document that fails for a missing path, a parse failure or an
\* embedding failure has written neither table nor the cache.
FailedAddWroteNothing ==
    (last.op = "add" /\ ~last.ok
       /\ last.err \in {"DocumentNotFound", "ParseFailed", "OnnxEmbedderError"})
        => last.t \notin wrote

EmbeddingFailedAdd ==
    /\ last.op = "add" /\ ~last.ok /\ last.err = "OnnxEmbedderError"
    /\ document_vectors # {}

\* C6: no document in the cache or in the documents table has empty content.
NoEmptyContent ==
    \A d \in db_documents \cup CacheDocs : d.content # <<>>

\* C7: no two cache entries share an id and no two rows of the documents
\* table share an id.
UniqueIds ==
    /\ Cardinality(CacheIdSet) = Len(documents)
    /\ Cardinality(DocIds) = Cardinality(db_documents)

TwoDocumentsOutOfOrder ==
    /\ Len(documents) = 2
    /\ documents[1].id > documents[2].id
    /\ Cardinality(db_documents) = 2

\* C8 as stated: a cached document with non-empty content, whose vector row
\* is the current provider's embedding of that content, is returned by a
\* search for its own content with any limit of at least 1, and no result
\* has a greater relevance.  (Stated for the states in which no call is in
\* progress, in runs without storage failures.)
OwnRow(d) == [document_id |-> d.id, embedding |-> EmbeddingOf(d.content),
              dimension |-> Dimension]
OwnVectorStored(d) == OwnRow(d) \in document_vectors
RowSim(query, r) ==
    cosine_similarity(EmbeddingOf(query), bytes_to_f32_slice(r.embedding, r.dimension))
\* The other rows that are at least as similar to d's content as d's own row.
Rivals(d) ==
    {r \in document_vectors \ {OwnRow(d)} :
        ~SimLess(RowSim(d.content, r), RowSim(d.content, OwnRow(d)))}
ReturnedOnTop(d, res) ==
    \E i \in 1..Len(res) :
        /\ res[i].document.id = d.id
        /\ \A j \in 1..Len(res) : ~SimLess(res[i].relevance, res[j].relevance)

SnippetByScalars ==
    snip_out.some =>
        snip_out.v = IF Len(snip_in) <= SnippetChars THEN snip_in
                     ELSE SubSeq(snip_in, 1, SnippetChars) \o Ellipsis

\* C10: when the cache holds one document and the document_vectors table
\* holds one row, for that document, list_documents has length 1 and every
\* search with a limit of at least 1 returns exactly that document.
OneDocument ==
    /\ Len(documents) = 1
    /\ Cardinality(document_vectors) = 1
    /\ VecIds = CacheIdSet

SingleDocumentSearch ==
    OneDocument =>
        /\ Len(SeqIds(documents)) = 1
        /\ \A q \in Texts, n \in Limits \ {0} : \A res \in SearchResults(q, n) :
               ResultIds(res) = <<documents[1].id>>

SingleDocumentFound ==
    /\ OneDocument
    /\ last.op = "search" /\ last.ok /\ last.ids = <<documents[1].id>>
    /\ last.arg # documents[1].content

\* C13: a construction fails only on a storage failure, never because of the
\* model directory; given no model directory, or one whose load fails, it
\* returns a facade with the fallback provider; and the provider changes
\* only when a construction returns a new instance.
ConstructionSurvivesModel ==
    [][/\ last'.op = "init" =>
            /\ ~last'.ok => (faults' = faults + 1 /\ last'.err = "ConnectionFailed")
            /\ (last'.ok /\ last'.model_dir # "loads") => embedder' = "Simple"
       /\ embedder' # embedder => (last'.op = "init" /\ last'.ok)]_vars

FallbackAfterFailedLoad ==
    /\ last.op = "init" /\ last.ok /\ last.model_dir = "fails"
    /\ embedder = "Simple"
    /\ documents # <<>>

\* C15: delete_document(id) removes the vector row, then the document row,
\* then the cache entry; a step that fails returns the error and none of
\* the later steps runs, so the cache entry goes only after both rows have.
DeleteStarts(t) ==
    /\ th[t].pc = "idle"
    /\ \/ th'[t].pc = "del_doc"
       \/ last'.t = t /\ last'.op = "delete"
DeleteInOrder ==
    [][\A t \in Threads :
          /\ DeleteStarts(t) =>
                /\ UNCHANGED <<db_documents, documents>>
                /\ last'.op = "delete" => (~last'.ok /\ UNCHANGED document_vectors)
          /\ (th[t].pc = "del_doc" /\ th'[t] # th[t]) =>
                /\ th[t].id \notin VecIds
                /\ UNCHANGED <<document_vectors, documents>>
                /\ last'.op = "delete" => (~last'.ok /\ UNCHANGED db_documents)
          /\ (th[t].pc = "del_cache" /\ th'[t] # th[t]) =>
                /\ th[t].id \notin VecIds \cup DocIds
                /\ UNCHANGED <<document_vectors, db_documents>>
                /\ documents' = cache_retain(documents, th[t].id)
                /\ last'.op = "delete" /\ last'.ok]_vars

DeleteStoppedAtRow ==
    /\ last.op = "delete" /\ ~last.ok
    /\ last.arg[1] \in CacheIdSet \cap DocIds
    /\ last.arg[1] \notin VecIds

\* C16: a VectorDb::clear_all that empties the document_vectors table also
\* empties the documents table, whether it returns Ok or an error.
ClearAllStep(t) ==
    /\ th[t].pc = "idle"
    /\ \/ th'[t].pc = "clr_cache"
       \/ last'.t = t /\ last'.op = "clear"
ClearAllAtomic ==
    [][\A t \in Threads :
          (ClearAllStep(t) /\ document_vectors' # document_vectors) => db_documents' = {}]_vars

\* C18: the join never fails, and it returns exactly the vector hits whose
\* id is in the cache when the join runs, in the order of the hits; a hit
\* with no cached document is dropped.
InCache(id) == id \in CacheIdSet
JoinDropsOrphans ==
    [][\A t \in Threads : (th[t].pc = "search_join" /\ th'[t] # th[t]) =>
          /\ last'.op = "search" /\ last'.ok
          /\ last'.hits = HitIds(th[t].similar_docs)
          /\ last'.ids = SelectSeq(last'.hits, InCache)]_vars

OrphanDropped ==
    /\ last.op = "search" /\ last.ok
    /\ last.hits # <<>>
    /\ last.ids = <<>>
    /\ last.hits[1] \in deletedOk

\* C11: in the hits VectorDb::search returns, a row whose vector (the
\* components its blob holds, at most `dimension` of them) differs in length
\* from the query vector, or has norm zero, or meets a query of norm zero,
\* has similarity exactly 0; the scan returns every row up to the limit,
\* and it fails only on a storage failure.
RowLen(r) == IF r.dimension < r.embedding.len THEN r.dimension ELSE r.embedding.len
RowIsZero(r) == \A k \in DOMAIN r.embedding.c : k >= RowLen(r)
RowOf(id) == CHOOSE r \in document_vectors : r.document_id = id
MismatchScoresZero ==
    /\ \A t \in Threads : th[t].pc = "search_join" =>
          /\ Len(th[t].similar_docs) =
                 (IF th[t].limit < Cardinality(document_vectors) THEN th[t].limit
                  ELSE Cardinality(document_vectors))
          /\ \A i \in 1..Len(th[t].similar_docs) :
                LET hit == th[t].similar_docs[i]
                    r == RowOf(hit.id)
                IN  (\/ RowLen(r) # th[t].emb.len
                     \/ RowIsZero(r)
                     \/ DOMAIN th[t].emb.c = {})
                        => hit.sim = SimZero
    /\ (last.op = "search" /\ ~last.ok) => faults > 0

ShortBlobScoredZero ==
    \E t \in Threads :
        /\ th[t].pc = "search_join"
        /\ \E i \in 1..Len(th[t].similar_docs) :
              LET r == RowOf(th[t].similar_docs[i].id)
              IN  /\ r.embedding.len < r.dimension
                  /\ r.dimension = th[t].emb.len
                  /\ Dot(r.embedding, th[t].emb) > 0
                  /\ th[t].similar_docs[i].sim = SimZero

\* C17: a search returns at most `limit` results, no two for the same
\* document, in order of non-increasing relevance, and none for limit 0.
SearchBounded ==
    /\ \A t \in Threads : th[t].pc = "search_join" =>
          LET res == search_join(th[t].similar_docs, documents)
          IN  /\ Len(res) <= th[t].limit
              /\ \A i, j \in 1..Len(res) :
                    i < j => /\ res[i].document.id # res[j].document.id
                             /\ ~SimLess(res[i].relevance, res[j].relevance)
    /\ (last.op = "search" /\ last.ok) =>
          \A i, j \in 1..Len(last.ids) : i < j => last.ids[i] # last.ids[j]

SearchCutAtLimit ==
    /\ last.op = "search" /\ last.ok
    /\ Len(last.ids) = 1
    /\ Cardinality(document_vectors) = 2
    /\ CacheIdSet = VecIds

\* C12: with the fallback provider, the vector a caller holds for a text has
\* in slot k the number of positions i (from 0) with (scalar + i) mod
\* dimension = k, so its counts sum to the number of scalars; it is the
\* same for every caller holding the same text, whatever ran before or
\* alongside, and it is what is stored for the document.
HasEmbedding(t) == th[t].pc \in {"add_insert", "add_save", "add_push", "search_db", "search_join"}
SlotsOf(text, k) == {i \in 1..Len(text) : (text[i] + (i - 1)) % Dimension = k}
FallbackDeterministic ==
    embedder = "Simple" =>
        /\ \A t \in Threads : HasEmbedding(t) =>
              LET text == th[t].content
                  v == th[t].emb
              IN  /\ v.len = Dimension
                  /\ DOMAIN v.c = {k \in 0..(Dimension - 1) : SlotsOf(text, k) # {}}
                  /\ \A k \in DOMAIN v.c : v.c[k] = Cardinality(SlotsOf(text, k))
                  /\ SumOver(v.c, DOMAIN v.c) = Len(text)
        /\ \A t, u \in Threads :
              (HasEmbedding(t) /\ HasEmbedding(u) /\ th[t].content = th[u].content)
                  => th[t].emb = th[u].emb
        /\ \A t \in Threads : \A r \in document_vectors :
              (th[t].pc = "add_save" /\ r.document_id = th[t].id) => r.embedding = th[t].emb

CollidingSlotsCounted ==
    /\ embedder = "Simple"
    /\ th[1].pc = "add_save" /\ th[2].pc = "search_db"
    /\ th[1].content = <<98, 97>>
    /\ th[2].content = <<97>>
    /\ th[1].emb.c[98] = 2

\* C19: in the call add_document(add_args): supplied content is the content
\* of the document, also with a path that does not exist, and the call does
\* not fail for a missing or unparsable file; a path alone that does not
\* exist gives DocumentNotFound and nothing is stored; a path alone that
\* exists gives its parsed text as the content; neither gives the
\* must-supply error (a ParseFailed) and nothing is stored.
AddPcs == {"add_embed", "add_insert", "add_save", "add_push"}
NothingStored ==
    /\ document_vectors = {} /\ db_documents = {} /\ documents = <<>>
    /\ \A t \in Threads : th[t].pc = "idle"
ContentIs(text) ==
    /\ \A t \in Threads : th[t].pc \in AddPcs => th[t].content = text
    /\ \A d \in db_documents \cup CacheDocs : d.content = text
AddFailedWith(errs) == (last.op = "add" /\ ~last.ok) => last.err \in errs
ContentResolution ==
    LET path == add_args.path
        content == add_args.content
    IN  /\ content.some =>
              /\ ContentIs(content.v)
              /\ AddFailedWith({"OnnxEmbedderError", "VectorDbError"})
        /\ (~content.some /\ path.some /\ ~path.exists) =>
              /\ NothingStored
              /\ last.op = "add" => (~last.ok /\ last.err = "DocumentNotFound")
        /\ (~content.some /\ path.some /\ path.exists) =>
              /\ ContentIs(path.text)
              /\ AddFailedWith({"ParseFailed", "OnnxEmbedderError", "VectorDbError"})
              /\ (\E t \in Threads : th[t].pc \in AddPcs) => path.readable
        /\ (~content.some /\ ~path.some) =>
              /\ NothingStored
              /\ last.op = "add" => (~last.ok /\ last.err = "ParseFailed")

ContentOverMissingPath ==
    /\ add_args.content.some /\ add_args.content.v # <<>>
    /\ add_args.path.some /\ ~add_args.path.exists
    /\ last.op = "add" /\ last.ok
    /\ Len(documents) = 1 /\ documents[1].content = add_args.content.v

\* C20: in the call add_document(add_args), what the call holds, stores
\* and returns is what it would be had create_dir_all, fs::copy and
\* fs::write all succeeded: the same content and backup path in the call
\* and in every stored document, and no error other than those of content
\* resolution, embedding and storage.
AllSucceed == [add_args EXCEPT !.create_dir_ok = TRUE, !.copy_ok = TRUE, !.write_ok = TRUE]
BackupFailuresSwallowed ==
    LET expected == backup(AllSucceed).backup_path
        r == resolve_content(add_args.path, add_args.content)
    IN  /\ \A t \in Threads : th[t].pc \in AddPcs =>
              (th[t].backup_path = expected /\ r.ok /\ th[t].content = r.val)
        /\ \A d \in db_documents \cup CacheDocs : d.backup_path = expected
        /\ AddFailedWith((IF r.ok THEN {} ELSE {r.val})
                            \cup {"OnnxEmbedderError", "VectorDbError"})
        /\ (last.op = "add" /\ last.ok) => r.ok

AddedDespiteFailedCopy ==
    /\ add_args.backup_dir /\ ~add_args.copy_ok /\ add_args.create_dir_ok
    /\ add_args.path.some /\ add_args.path.exists
    /\ backup_files = {}
    /\ last.op = "add" /\ last.ok
    /\ Len(documents) = 1 /\ documents[1].backup_path = SomeBackup("copy")
    /\ db_documents = CacheDocs

\* C14: no caller ever holds two locks, and under fair scheduling every
\* operation that has started returns.
HoldsAtMostOne == \A t \in Threads : Cardinality(held[t]) <= 1
NoDeadlock ==
    /\ []HoldsAtMostOne
    /\ \A t \in Threads : InOp(t) ~> ~InOp(t)

WriterWaitsForReader ==
    /\ run[1].op = "search" /\ held[1] = {[lock |-> "documents", mode |-> "r"]}
    /\ run[2].op = "clear" /\ waiters["documents"] = <<2>>
    /\ embedder = "Onnx"

\* C21: when save_document fails in add_document the call returns the
\* storage error and that step changes neither table nor the cache; an id
\* whose call ended without returning a document never has a documents row
\* or a cache entry; and its vector row, once there, is removed by no step
\* other than VectorDb::clear_all.
FailedAddIds ==
    {i \in 1..(next_id - 1) :
        /\ i \notin visible
        /\ \A t \in Threads : ~(th[t].pc \in AddPcs /\ th[t].id = i)}
SaveFailsAt(t) ==
    /\ th[t].pc = "add_save"
    /\ last'.t = t /\ last'.op = "add" /\ ~last'.ok
ClearTablesStep ==
    \E u \in Threads :
        /\ th[u].pc = "idle"
        /\ th'[u].pc = "clr_cache" \/ (last'.t = u /\ last'.op = "clear")
OrphanKept ==
    /\ \A t \in Threads : SaveFailsAt(t) =>
          /\ last'.err = "VectorDbError"
          /\ UNCHANGED <<document_vectors, db_documents, documents>>
    /\ \/ document_vectors' = document_vectors
       \/ ClearTablesStep
       \/ \A i \in VecIds \ VecIds' : i \notin FailedAddIds
FailedSaveLeavesOrphan ==
    /\ [](\A i \in FailedAddIds : i \notin DocIds /\ i \notin CacheIdSet)
    /\ [][OrphanKept]_vars

OrphanAfterFailedSave ==
    /\ last.op = "add" /\ ~last.ok /\ last.err = "VectorDbError"
    /\ last.t \in wrote
    /\ \E i \in FailedAddIds : i \in VecIds /\ i \notin DocIds /\ i \notin CacheIdSet

\* C22: after any sequence of VectorDb::insert and VectorDb::delete calls
\* the table holds at most one row per id, an id inserted and not deleted
\* since has exactly the row of its latest insert with dimension equal to
\* the vector's length, an id deleted since has none, and an insert fails
\* only on a storage failure, whether or not the id had a row.
RowsOf(id) == {r \in document_vectors : r.document_id = id}
UpsertKeepsLatest ==
    /\ \A id \in 1..MaxRows :
          /\ Cardinality(RowsOf(id)) <= 1
          /\ recent[id].some =>
                RowsOf(id) = {[document_id |-> id, embedding |-> recent[id].v,
                               dimension |-> recent[id].v.len]}
          /\ ~recent[id].some => RowsOf(id) = {}
    /\ (last.op = "insert" /\ ~last.ok) => (faults > 0 /\ last.err = "InsertFailed")

ReplacedRow ==
    /\ last.op = "insert" /\ last.ok /\ last.again
    /\ \E r \in RowsOf(last.arg[1]) : r.embedding.len = MaxDim /\ r.dimension = MaxDim
    /\ \E id \in 1..MaxRows : id # last.arg[1] /\ ~recent[id].some /\ RowsOf(id) = {}

\* C23: list_documents returns the cache as it is at that step and leaves
\* it unchanged, and within the life of one facade every step keeps the
\* relative order of the documents that stay in the cache and puts a newly
\* added document behind all of them, so the listing is in the order of the
\* pushes, less the documents deleted.
Before(docs, a, b) ==
    \E i, j \in 1..Len(docs) : i < j /\ docs[i].id = a /\ docs[j].id = b
OrderKept ==
    LET after == {documents'[i].id : i \in 1..Len(documents')}
        kept == CacheIdSet \cap after
    IN  /\ \A a, b \in kept : Before(documents, a, b) <=> Before(documents', a, b)
        /\ \A a \in kept, b \in after \ CacheIdSet :
              Before(documents', a, b) /\ ~Before(documents', b, a)
ListStep ==
    \/ /\ documents' = documents
       /\ last'.op = "list" => last'.ids = SeqIds(documents)
    \/ /\ documents' # documents
       /\ last'.op # "list"
       /\ last'.op = "init" \/ OrderKept
       /\ \A t \in Threads : (th[t].pc = "add_push" /\ th'[t].pc = "idle") =>
             (Len(documents') = Len(documents) + 1
                /\ documents'[Len(documents')] = DocOf(th[t]))
ListInPushOrder == [][ListStep]_vars

ListedBetweenConcurrentAdds ==
    /\ last.op = "list" /\ last.ok /\ last.ids = <<2>>
    /\ \E u \in Threads : th[u].pc = "add_push" /\ th[u].id = 1

\* C24: an id for which delete_document has returned Ok is in no cache
\* from then on, a listing is the whole cache and a search result a part of
\* it, so neither returns that id; and a document add_document has
\* returned is in the cache from that return until a step of a
\* delete_document of its id or of a clear_all removes it, or a new facade
\* is constructed.
RemovedBy(id) ==
    \E u \in Threads :
        /\ th'[u].pc = "idle"
        /\ \/ th[u].pc = "del_cache" /\ th[u].id = id
           \/ th[u].pc = "clr_cache"
AfterReturn ==
    /\ \A id \in deletedOk : id \notin CacheIdSet
    /\ last.op = "list" => last.ids = SeqIds(documents)
    /\ (last.op = "search" /\ last.ok) =>
          \A i \in 1..Len(last.ids) : last.ids[i] \in CacheIdSet
StaysListed ==
    \/ documents' = documents /\ visible' = visible
    \/ /\ \A id \in visible' \ visible : \E i \in 1..Len(documents') : documents'[i].id = id
       /\ \/ last'.op = "init"
          \/ \A id \in visible \cap CacheIdSet :
                (\E i \in 1..Len(documents') : documents'[i].id = id) \/ RemovedBy(id)
CallOrder == []AfterReturn /\ [][StaysListed]_vars

ListedAfterDelete ==
    /\ deletedOk = {1} /\ visible = {1, 2}
    /\ last.op = "list" /\ last.ok /\ last.ids = <<2>>

\* C25: with the semantic provider at most one caller is inside
\* Embedder::embed at any time; a caller that is past its embed statement
\* holds the semantic provider's embedding of its text; and a caller whose
\* inference failed has returned that error and holds no embedding.
InEmbed(t) == \E h \in held[t] : h.lock = "embedder"
PastEmbed(t) ==
    /\ InOp(t) /\ run[t].op \in {"add", "search"}
    /\ run[t].at > Len(EmbedStmt(embedder))
EmbedSerialized ==
    /\ Cardinality({t \in Threads : InEmbed(t)}) <= 1
    /\ \A t \in Threads : InEmbed(t) => embedder = "Onnx"
    /\ \A t \in Threads : (embedder = "Onnx" /\ PastEmbed(t)) =>
          /\ run[t].emb = OnnxEmbedder_embed(LockText, Dimension)
          /\ run[t].emb # SimpleEmbedder_embed(LockText, Dimension)
    /\ \A t \in Threads : run[t].err = "OnnxEmbedderError" =>
          (~InOp(t) /\ held[t] = {} /\ run[t].emb = ZeroVec(0))

EmbedWaitsForEmbed ==
    /\ embedder = "Onnx"
    /\ InEmbed(1) /\ run[1].op = "add"
    /\ run[2].op = "search" /\ waiters["embedder"] = <<2>>
    /\ run[2].emb = ZeroVec(0)

\* C26: whenever with_model_dir returns Ok, the cache of the new facade
\* holds exactly the documents of the documents table, each once.
CacheLoadedFromStore ==
    (last.op = "init" /\ last.ok) =>
        (CacheDocs = db_documents /\ Len(documents) = Cardinality(db_documents))

\* C27: a transcription call that has read the body returns the error of
\* the first error event when that event comes before any [DONE] marker,
\* otherwise the text of the last success event before the first [DONE]
\* marker (or before the end of the body when there is none), otherwise
\* the no-result error; no line behind the first marker or error event is
\* read.
Stops(line) == line.kind \in {"done", "error"}
StopAt(body) ==
    CHOOSE n \in 1..(Len(body) + 1) :
        /\ n <= Len(body) => Stops(body[n])
        /\ \A j \in 1..(n - 1) : ~Stops(body[j])
SuccessBefore(body, n) == {i \in 1..(n - 1) : body[i].kind = "success"}
LastOf(S) == CHOOSE i \in S : \A j \in S : j <= i
AsrExpected(body) ==
    LET n == StopAt(body)
        S == SuccessBefore(body, n)
    IN  IF n <= Len(body) /\ body[n].kind = "error"
        THEN [ok |-> FALSE, err |-> "AsrFailed", text |-> 0]
        ELSE IF S = {} THEN [ok |-> FALSE, err |-> "NoResult", text |-> 0]
        ELSE [ok |-> TRUE, err |-> None, text |-> body[LastOf(S)].text]
AsrReturned == asr.pc = "returned"
AsrConsumesEvents ==
    /\ asr.pos <= StopAt(asr.body)
    /\ (AsrReturned /\ asr.transport = "ok") =>
          [ok |-> asr.ok, err |-> asr.err, text |-> asr.text] = AsrExpected(asr.body)
    /\ (AsrReturned /\ asr.transport # "ok") => (~asr.ok /\ asr.err = asr.transport)

IgnoredAfterDone ==
    /\ AsrReturned /\ asr.ok /\ asr.text = 1
    /\ Len(asr.body) = 3
    /\ asr.body[1] = [kind |-> "success", text |-> 1]
    /\ asr.body[2].kind = "done"
    /\ asr.body[3].kind = "error"

\* C28: whenever no call is in progress, a search returns exactly
\* min(limit, number of cached documents) results.
AtMost(n, m) == IF n < m THEN n ELSE m
SearchFillsLimit ==
    Quiescent =>
        \A query \in Texts, limit \in Limits :
            \A res \in SearchResults(query, limit) :
                Len(res) = AtMost(limit, Len(documents))

\* C28, amended: whenever no call is in progress, a search returns at most
\* min(limit, number of cached documents) results, and exactly that many
\* when the ids of the vector rows are the ids of the cached documents.
SearchFillsLimitWithoutOrphans ==
    Quiescent =>
        \A query \in Texts, limit \in Limits :
            \A res \in SearchResults(query, limit) :
                /\ Len(res) <= AtMost(limit, Len(documents))
                /\ VecIds = CacheIdSet => Len(res) = AtMost(limit, Len(documents))

OneOfTwoReturned ==
    /\ last.op = "search" /\ last.ok /\ Len(last.ids) = 1 /\ Len(last.hits) = 1
    /\ Len(documents) = 2 /\ VecIds = CacheIdSet /\ Cardinality(VecIds) = 2

\* C29: with add_document, list_documents and init_knowledge_base as the
\* only commands and no storage failure, a listing through the global
\* instance holds every document an add_document has returned before.
AddedIsListed ==
    (faults = 0 /\ last.op = "list" /\ last.ok) =>
        \A id \in visible : \E i \in 1..Len(last.ids) : last.ids[i] = id

\* C30: in the call add_document(add_args), a stored document's backup
\* path names a file the call has written in the backup directory, and
\* there is no backup path when no backup directory is given.
BackupFileOf(b) == IF b.kind = "copy" THEN "copy" ELSE "transcript.txt"
BackupPathWritten ==
    \A d \in db_documents \cup CacheDocs :
        /\ d.backup_path.some => BackupFileOf(d.backup_path) \in backup_files
        /\ ~add_args.backup_dir => d.backup_path = NoBackup

\* C31: when no download_asr_model call is running, every file that exists
\* in the model directory is complete, and check_asr_model reports
\* is_installed = true only if both files are complete; and no call skips a
\* file whose earlier download did not finish.
AllComplete == \A f \in {MODEL_FILE, TOKENS_FILE} : Complete(dl.files[f])
InstalledMeansDownloaded ==
    /\ dl.skipped = {}
    /\ dl.pc = "idle" =>
          /\ \A f \in {MODEL_FILE, TOKENS_FILE} :
                dl.files[f].exists => Complete(dl.files[f])
          /\ dl.checked.some /\ dl.checked.is_installed => AllComplete

\* C32: once a transcribe_video call has returned, with a transcript or
\* with an error, the .wav file of its id is not in the temp directory.
TempAudioRemoved == tv.pc = "idle" => tv.video_id \notin tv.wavs

\* C33: at most one init_tray call passes the test of the flag and at most one
\* tray icon is built; a call made after one has returned Ok returns the
\* already-initialized error; and a call made when an earlier attempt has
\* failed, no attempt is running and no icon exists passes the test of the flag.
TrayCallMade == tray'.calls = tray.calls + 1
TrayTestPassed == tray'.passed = tray.passed + 1
TrayBuiltOnce == tray.passed <= 1 /\ tray.icons <= 1
RefusedAfterSuccess ==
    tray.succeeded /\ TrayCallMade =>
        /\ ~TrayTestPassed
        /\ \E t \in Threads :
              tray'.call[t] = [pc |-> "idle", ret |-> "AlreadyInitialized"]
NoAttemptRunning == \A t \in Threads : tray.call[t].pc = "idle"
RetryAfterFailure ==
    tray.failed /\ tray.icons = 0 /\ NoAttemptRunning /\ TrayCallMade
        => TrayTestPassed
TrayOnceWithRetry ==
    []TrayBuiltOnce /\ [][RefusedAfterSuccess /\ RetryAfterFailure]_vars
====
